---- MODULE Spec2Model ----
(***************************************************************************)
(* Call flow of the Birbank Business telesales script that                  *)
(* src/app/backend/app.py installs as rtmt.system_message.  The script is   *)
(* the program: each numbered section is a step of the call, each          *)
(* "Customer Response Handling" list is the branch taken on the customer's *)
(* classified answer.  One session is one call.  sess is the call under     *)
(* study; sess2 is a second call whose script differs only in the two      *)
(* secret identity values; probe holds one application of the rate table   *)
(* or of the phone number rule.                                             *)
(***************************************************************************)
EXTENDS Integers, Sequences, FiniteSets, TLC

VARIABLES sess, sess2, probe

vars == <<sess, sess2, probe>>

(***************************************************************************)
(* Bounds of the model                                                      *)
(***************************************************************************)
\* the SMS log is capped at this many entries
MaxSms == 2
\* the terms tried against the rate table are 0..MaxTermProbe
MaxTermProbe == 60
\* the first three symbols of a number tried against the phone rule are
\* -1..MaxPrefixSymbol
MaxPrefixSymbol == 9

(***************************************************************************)
(* Product details (script lines 63-81)                                     *)
(***************************************************************************)
PreApprovedAmount == 50000
MaxTermAvailable == 36
MinAmount == 1000
MaxAmount == 50000

\* a rate in percent, or the failure that carries no rate
Rate(r) == [err |-> "", rate |-> r]
InvalidTerm == [err |-> "InvalidTerm", rate |-> 0]

\* mutant of RateFor: a term between the listed ones gets the next rate up
RateForRounded(t) ==
  CASE t \in 1..6 -> Rate(19)
    [] t \in 7..12 -> Rate(21)
    [] t \in 13..24 -> Rate(23)
    [] t \in 25..36 -> Rate(25)
    [] OTHER -> InvalidTerm

\* Interest Rates by Term; any other term has no rate
RateFor(t) ==
  CASE t = 6 -> Rate(19)
    [] t = 12 -> Rate(21)
    [] t = 24 -> Rate(23)
    [] t = 36 -> Rate(25)
    [] OTHER -> InvalidTerm

\* Loan Range: 1,000 - 50,000 manat
AmountInRange(a) == a >= MinAmount /\ a <= MaxAmount

(***************************************************************************)
(* Expected identity of the current customer (secret)                       *)
(***************************************************************************)
ExpectedFather == "Anar"
ExpectedBirth == "12 iyul 2001"
\* the secret values of the second call
OtherFather == "Vaqif"
OtherBirth == "3 may 1999"

(***************************************************************************)
(* Phone numbers: sequences of symbols, a digit 0..9 or the separator -1    *)
(***************************************************************************)
PhonePrefixes ==
  { <<0,5,0>>, <<0,5,5>>, <<0,1,0>>, <<0,7,0>>, <<0,7,7>>, <<0,9,9>> }

\* mutant of Validate: the prefix is not looked at
ValidateLengthOnly(p) ==
  /\ Len(p) = 10
  /\ \A i \in 1..Len(p) : p[i] \in 0..9

\* exactly 10 digits, starting with one of the six prefixes
Validate(p) ==
  /\ Len(p) = 10
  /\ \A i \in 1..Len(p) : p[i] \in 0..9
  /\ SubSeq(p, 1, 3) \in PhonePrefixes

(***************************************************************************)
(* What the customer can say                                                 *)
(***************************************************************************)
Intents == {"AFFIRM", "DENY", "CORRECTION", "QUESTION", "DATA", "OTHER"}

FatherInputs == {"Anar", "Vaqif"}
BirthInputs == {"12 iyul 2001", "3 may 1999"}
SectorInputs == {"ticaret", "xidmet"}
SubSectorInputs == {"perakende"}
CityInputs == {"Baki"}
DistrictInputs == {"Nesimi"}
AmountInputs == {500, 1000, 20000, 50000, 60000}
TermInputs == {6, 12, 18, 24, 36}
PhoneInputs ==
  { <<0,5,0,1,2,3,4,5,6,7>>,      \* valid
    <<0,7,7,7,6,5,4,3,2,1>>,      \* valid
    <<0,6,0,1,2,3,4,5,6,7>>,      \* prefix not in the list
    <<0,5,0,1,2,3,4,5,6>>,        \* nine digits
    <<0,5,0,-1,1,2,3,4,5,6>> }    \* ten symbols, one a separator

\* the question categories of section 3 of the script
KnownQuestions ==
  { "RATE", "MAX_TERM", "TOTAL_PAYMENT", "COMMISSION", "LESS_AMOUNT",
    "SHORTER_TERM", "OTHER_TERMS", "COLLATERAL", "SITE_VISIT",
    "BRANCH_VISIT", "EARLY_REPAY", "EARLY_PENALTY" }
QuestionInputs == KnownQuestions \cup {"NOT_IN_SCRIPT"}

\* an input with nothing in it; "" , 0 and <<>> mean "not said"
NoIn ==
  [ intent |-> "OTHER", father |-> "", birth |-> "", sector |-> "",
    subsector |-> "", amount |-> 0, term |-> 0, city |-> "",
    district |-> "", phones |-> <<>>, q |-> "", slot |-> 0 ]

SayOnly == { [NoIn EXCEPT !.intent = i] : i \in Intents }

IdentityIn ==
  { [NoIn EXCEPT !.intent = "DATA", !.father = f, !.birth = b] :
      f \in FatherInputs \cup {""}, b \in BirthInputs \cup {""} }

QuestionIn == { [NoIn EXCEPT !.intent = "QUESTION", !.q = q] : q \in QuestionInputs }

SectorIn ==
  { [NoIn EXCEPT !.intent = i, !.sector = x, !.subsector = y] :
      i \in {"DATA", "CORRECTION"},
      x \in SectorInputs \cup {""}, y \in SubSectorInputs \cup {""} }

AmendIn ==
  { [NoIn EXCEPT !.intent = "CORRECTION", !.amount = a, !.term = t] :
      a \in AmountInputs \cup {0}, t \in TermInputs \cup {0} }

AmountIn == { [NoIn EXCEPT !.intent = "DATA", !.amount = a] : a \in AmountInputs }

LocationIn ==
  { [NoIn EXCEPT !.intent = "DATA", !.city = c, !.district = d] :
      c \in CityInputs \cup {""}, d \in DistrictInputs \cup {""} }

PhoneIn ==
  { [NoIn EXCEPT !.intent = "DATA", !.phones = <<p>>] : p \in PhoneInputs }
  \cup
  { [NoIn EXCEPT !.intent = "DATA", !.phones = <<p, r>>] :
      p \in PhoneInputs, r \in PhoneInputs }

PhoneFixIn == { [NoIn EXCEPT !.intent = "CORRECTION", !.slot = k] : k \in 0..2 }

AllIn ==
  SayOnly \cup IdentityIn \cup QuestionIn \cup SectorIn \cup AmendIn
    \cup AmountIn \cup LocationIn \cup PhoneIn \cup PhoneFixIn

(***************************************************************************)
(* What the system says: the script line, the in-place reply that came      *)
(* before it in the same turn, and the values put into its [..] slots       *)
(***************************************************************************)
Say(id) ==
  [ id |-> id, pre |-> "", q |-> "", x |-> "", y |-> "",
    amount |-> 0, term |-> 0, rate |-> 0, phones |-> <<>> ]

\* "Salam! Bu Birbank Biznesdir. ... ile danisiram?"
GreetingUtter == Say("GREETING")
\* "... yanlis nomreye zeng etmisem. Zengi bitirirem."
WrongNumberUtter == Say("WRONG_NUMBER")
\* "... Lutfen ata adinizi ve dogum tarixinizi soyleyin."
IdentityPromptUtter == Say("IDENTITY_PROMPT")
AskFatherUtter == Say("ASK_FATHER")
AskBirthUtter == Say("ASK_BIRTH")
\* "... kimlik tesdiqlendi. ... lutfen 'Beli' deyin."
VerifiedUtter == Say("IDENTITY_VERIFIED")

\* mutant of RejectedUtter: the refusal names the value that was expected
RejectedUtterLeak(s) == [Say("IDENTITY_REJECTED") EXCEPT !.x = s.expFather]

\* "... kimlik tesdiqlenmedi. Zengi bitirirem."  (never the expected values)
RejectedUtter(s) == Say("IDENTITY_REJECTED")

\* "Basa dusdum. Vaxtiniza gore tesekkur edirem."
DeclinedUtter == Say("DECLINED")

\* "... kredit meblegi 50,000 manatdir, muddeti 36 aydir. ... hansi suallariniz var?"
OfferUtter ==
  [Say("OFFER") EXCEPT !.amount = PreApprovedAmount, !.term = MaxTermAvailable]

\* a standard response of section 3, or the transfer to a specialist
Reply(q) ==
  IF q \in KnownQuestions THEN [Say("ANSWER") EXCEPT !.q = q] ELSE Say("ESCALATE")

\* "Ela! Muracietinizi davam etdirmek ucun ..." then "Biznes sektorunuzu ..."
SectorPromptUtter == Say("SECTOR_PROMPT")
\* "Dediniz ki, sektorunuz [X], alt-sektorunuz [Y]. Duzgundur?"
SectorConfirmUtter(x, y) == [Say("SECTOR_CONFIRM") EXCEPT !.x = x, !.y = y]
\* "... tesdiqlenmis kredit mebleginiz [X] manatdir. ..."
AmountCheckUtter(o) ==
  [Say("AMOUNT_CHECK") EXCEPT !.amount = o.amount, !.term = o.term]
\* "... hansi seher ve rayonda ..."
LocationPromptUtter == Say("LOCATION_PROMPT")
\* "... iki elave telefon nomresi vere bilersinizmi?"
PhonePromptUtter == Say("PHONE_PROMPT")
\* "... telefon nomreleri duzgun formatda deyil. ... 10 reqemden ibaret ..."
PhoneFormatUtter == Say("PHONE_FORMAT")
\* "Mene iki telefon nomresi lazimdir. ... ikinci telefon nomresini de verin."
PhoneSecondUtter == Say("PHONE_SECOND")
\* "Aldigim telefon nomreleri: birinci [..], ikinci [..]. Duzgundur?"
PhoneConfirmUtter(ps) == [Say("PHONE_CONFIRM") EXCEPT !.phones = ps]

\* mutant of FinalConfirmUtter: [Z] is the rate of the pre-approved term
FinalConfirmUtterCached(o) ==
  [Say("FINAL_CONFIRM") EXCEPT
     !.amount = o.amount, !.term = o.term, !.rate = RateFor(MaxTermAvailable).rate]

\* "... kredit mebleginiz [X] manatdir, muddeti [Y] aydir, faiz derecesi [Z]%-dir. ..."
FinalConfirmUtter(o) ==
  [Say("FINAL_CONFIRM") EXCEPT
     !.amount = o.amount, !.term = o.term, !.rate = RateFor(o.term).rate]

\* "Ela! Senedleriniz hazirdir. Qisa muddetde SMS alacaqsiniz. ..."
SmsUtter == Say("SMS_DISPATCH")
\* "Daha evvel [X] manat meblegini secmisdiniz. Yeni meblegin ne olmasini isteyirsiniz?"
AmendAskUtter(o) == [Say("AMEND_ASK") EXCEPT !.amount = o.amount]
\* "[Y] manat meblegi ile yeni melumatlari istifade ederek davam edim?"
AmendReconfirmUtter(a) == [Say("AMEND_RECONFIRM") EXCEPT !.amount = a]
\* "Son defe kredit muracietinizi tesdiqleyirsiniz? Bu cox vacibdir."
AmendFinalUtter == Say("AMEND_FINAL")
\* "Basqa bir sualiniz varmi?"
ClosingQuestionUtter == Say("CLOSING_QUESTION")
\* "Birbank Biznesi secdiyiniz ucun tesekkur edirem. ..."
FinalClosingUtter == Say("FINAL_CLOSING")

\* a reply given in place, followed in the same turn by the prompt u again
After(pre, q, u) == [u EXCEPT !.pre = pre, !.q = q]

(***************************************************************************)
(* The session of one call                                                  *)
(***************************************************************************)
NewSession(f, b) ==
  [ state |-> "GREETING", reason |-> "", expFather |-> f, expBirth |-> b,
    father |-> "", birth |-> "", verification |-> "unverified",
    sector |-> "", subsector |-> "",
    offer |-> [amount |-> PreApprovedAmount, term |-> MaxTermAvailable],
    newAmount |-> 0, amendStep |-> "",
    sectorOk |-> FALSE, city |-> "", district |-> "",
    phones |-> <<>>, phonesOk |-> FALSE,
    confirmation |-> "unconfirmed", dispatch |-> "not-sent", smsLog |-> <<>>,
    utter |-> GreetingUtter, endCall |-> FALSE, lastIntent |-> "",
    lastQ |-> "" ]

\* the system answers u and waits in the same step of the script
Stay(s, in, u) ==
  [s EXCEPT !.utter = u, !.lastIntent = in.intent, !.lastQ = in.q]

\* the system says u and moves to step st
Go(s, in, st, u) ==
  [s EXCEPT !.state = st, !.utter = u, !.lastIntent = in.intent,
            !.lastQ = in.q]

\* the system says u and ends the call
EndCall(s, in, why, u) ==
  [s EXCEPT !.state = "CALL_ENDED", !.reason = why, !.utter = u,
            !.endCall = TRUE, !.lastIntent = in.intent, !.lastQ = in.q]

\* anything the step has no rule for: answer or escalate, then prompt again
InPlace(s, in, u) ==
  CASE in.intent = "QUESTION" ->
         Stay(s, in, After(Reply(in.q).id, Reply(in.q).q, u))
    [] in.intent = "OTHER" -> Stay(s, in, After("ESCALATE", "", u))
    [] OTHER -> Stay(s, in, After("REPROMPT", "", u))

(***************************************************************************)
(* 1. Greeting and identity verification                                    *)
(***************************************************************************)
\* "STOP and wait": until the identity is verified the step has no answer
\* about the loan; it repeats its own prompt
Wait(s, in, u) == Stay(s, in, After("REPROMPT", "", u))

\* mutant of OnGreeting: anything but a NO continues to the security step
OnGreetingLax(s, in) ==
  CASE in.intent = "DENY" -> EndCall(s, in, "wrong-number", WrongNumberUtter)
    [] OTHER -> Go(s, in, "IDENTITY_CHALLENGE", IdentityPromptUtter)

OnGreeting(s, in) ==
  CASE in.intent = "DENY" -> EndCall(s, in, "wrong-number", WrongNumberUtter)
    [] in.intent = "AFFIRM" -> Go(s, in, "IDENTITY_CHALLENGE", IdentityPromptUtter)
    [] OTHER -> Wait(s, in, GreetingUtter)

\* mutant of IdentityMatches: one matching piece is enough
IdentityMatchesEither(s) == s.father = s.expFather \/ s.birth = s.expBirth

\* "If both pieces match exactly"
IdentityMatches(s) == s.father = s.expFather /\ s.birth = s.expBirth

\* the facts held after this turn
Hold(old, said) == IF said # "" THEN said ELSE old

\* mutant of OnIdentityChallenge: a wrong father's name is refused at once
OnIdentityChallengeEager(s, in) ==
  LET h == [s EXCEPT !.father = Hold(s.father, in.father),
                     !.birth = Hold(s.birth, in.birth)]
  IN  CASE h.father # "" /\ h.father # h.expFather ->
             EndCall([h EXCEPT !.verification = "rejected"], in,
                     "identity-rejected", RejectedUtter(h))
        [] h.father = "" /\ h.birth = "" -> Wait(h, in, IdentityPromptUtter)
        [] h.father = "" /\ h.birth # "" -> Stay(h, in, AskFatherUtter)
        [] h.father # "" /\ h.birth = "" -> Stay(h, in, AskBirthUtter)
        [] OTHER ->
             IF IdentityMatches(h)
             THEN Go([h EXCEPT !.verification = "verified"], in,
                     "IDENTITY_VERIFIED", VerifiedUtter)
             ELSE EndCall([h EXCEPT !.verification = "rejected"], in,
                          "identity-rejected", RejectedUtter(h))

OnIdentityChallenge(s, in) ==
  LET h == [s EXCEPT !.father = Hold(s.father, in.father),
                     !.birth = Hold(s.birth, in.birth)]
  IN  CASE h.father = "" /\ h.birth = "" -> Wait(h, in, IdentityPromptUtter)
        [] h.father = "" /\ h.birth # "" -> Stay(h, in, AskFatherUtter)
        [] h.father # "" /\ h.birth = "" -> Stay(h, in, AskBirthUtter)
        [] OTHER ->
             IF IdentityMatches(h)
             THEN Go([h EXCEPT !.verification = "verified"], in,
                     "IDENTITY_VERIFIED", VerifiedUtter)
             ELSE EndCall([h EXCEPT !.verification = "rejected"], in,
                          "identity-rejected", RejectedUtter(h))

\* mutant of OnIdentityVerified: anything but a NO brings the offer
OnIdentityVerifiedLax(s, in) ==
  CASE in.intent = "DENY" -> EndCall(s, in, "declined", DeclinedUtter)
    [] OTHER -> Go(s, in, "OFFER_PRESENTED", OfferUtter)

OnIdentityVerified(s, in) ==
  CASE in.intent = "AFFIRM" -> Go(s, in, "OFFER_PRESENTED", OfferUtter)
    [] in.intent = "DENY" -> EndCall(s, in, "declined", DeclinedUtter)
    [] OTHER -> InPlace(s, in, VerifiedUtter)

(***************************************************************************)
(* 2-4. Offer, questions, transition to data collection                     *)
(***************************************************************************)
\* mutant of OnQuestions: what the script has no answer for ends the call
OnQuestionsHangUp(s, in) ==
  CASE in.intent = "AFFIRM" -> Go(s, in, "SECTOR_COLLECTION", SectorPromptUtter)
    [] in.intent = "DENY" -> EndCall(s, in, "declined", DeclinedUtter)
    [] in.intent = "QUESTION" /\ in.q \in KnownQuestions ->
         Go(s, in, "QA_LOOP", Reply(in.q))
    [] OTHER -> EndCall(s, in, "declined", Say("ESCALATE"))

OnQuestions(s, in) ==
  CASE in.intent = "AFFIRM" -> Go(s, in, "SECTOR_COLLECTION", SectorPromptUtter)
    [] in.intent = "DENY" -> EndCall(s, in, "declined", DeclinedUtter)
    [] in.intent = "QUESTION" /\ in.q \in KnownQuestions ->
         Go(s, in, "QA_LOOP", Reply(in.q))
    [] OTHER -> Stay(s, in, Say("ESCALATE"))

(***************************************************************************)
(* 5. Sector and sub-sector                                                 *)
(***************************************************************************)
OnSectorCollection(s, in) ==
  LET h == [s EXCEPT !.sector = Hold(s.sector, in.sector),
                     !.subsector = Hold(s.subsector, in.subsector)]
  IN  CASE in.intent = "DENY" -> EndCall(s, in, "declined", DeclinedUtter)
        [] h.sector # "" /\ h.subsector # "" ->
             Go(h, in, "SECTOR_CONFIRM", SectorConfirmUtter(h.sector, h.subsector))
        [] OTHER -> InPlace(h, in, SectorPromptUtter)

\* mutant of OnSectorConfirm: a correction that names the values is taken
\* as given and the call moves on
OnSectorConfirmTrust(s, in) ==
  LET h == [s EXCEPT !.sector = Hold(s.sector, in.sector),
                     !.subsector = Hold(s.subsector, in.subsector)]
  IN  CASE in.intent = "AFFIRM" ->
             Go([s EXCEPT !.sectorOk = TRUE], in, "AMOUNT_ACCEPT_CHECK",
                AmountCheckUtter(s.offer))
        [] in.intent = "CORRECTION" /\ (in.sector # "" \/ in.subsector # "") ->
             Go([h EXCEPT !.sectorOk = TRUE], in, "AMOUNT_ACCEPT_CHECK",
                AmountCheckUtter(s.offer))
        [] in.intent = "CORRECTION" ->
             Go(s, in, "SECTOR_COLLECTION", SectorPromptUtter)
        [] OTHER -> InPlace(s, in, SectorConfirmUtter(s.sector, s.subsector))

OnSectorConfirm(s, in) ==
  LET h == [s EXCEPT !.sector = Hold(s.sector, in.sector),
                     !.subsector = Hold(s.subsector, in.subsector)]
  IN  CASE in.intent = "AFFIRM" ->
             Go([s EXCEPT !.sectorOk = TRUE], in, "AMOUNT_ACCEPT_CHECK",
                AmountCheckUtter(s.offer))
        [] in.intent = "CORRECTION" /\ (in.sector # "" \/ in.subsector # "") ->
             Go(h, in, "SECTOR_CONFIRM", SectorConfirmUtter(h.sector, h.subsector))
        [] in.intent = "CORRECTION" ->
             Go(s, in, "SECTOR_COLLECTION", SectorPromptUtter)
        [] OTHER -> InPlace(s, in, SectorConfirmUtter(s.sector, s.subsector))

(***************************************************************************)
(* 6. Approved amount; a different amount or term may be chosen             *)
(***************************************************************************)
Chosen(old, said) == IF said # 0 THEN said ELSE old

\* mutant of Amend: the term is taken as the customer says it
AmendAnyTerm(o, a, t) ==
  LET na == Chosen(o.amount, a)
      nt == Chosen(o.term, t)
  IN  IF AmountInRange(na) THEN [amount |-> na, term |-> nt] ELSE o

\* the offer after the customer asks for amount a and term t (0: no change)
Amend(o, a, t) ==
  LET na == Chosen(o.amount, a)
      nt == Chosen(o.term, t)
  IN  IF AmountInRange(na) /\ RateFor(nt).err = ""
      THEN [amount |-> na, term |-> nt]
      ELSE o

\* what the customer is told about the change
AmendReply(o, a, t) ==
  CASE RateFor(Chosen(o.term, t)).err # "" -> "TERMS_ONLY"
    [] ~AmountInRange(Chosen(o.amount, a)) -> "RANGE_ONLY"
    [] OTHER -> "CHANGED"

\* mutant of OnAmountAcceptCheck: a customer who declines here is let go
OnAmountAcceptCheckDecline(s, in) ==
  CASE in.intent = "AFFIRM" ->
         Go(s, in, "LOCATION_COLLECTION", LocationPromptUtter)
    [] in.intent = "DENY" -> EndCall(s, in, "declined", DeclinedUtter)
    [] OTHER -> InPlace(s, in, AmountCheckUtter(s.offer))

OnAmountAcceptCheck(s, in) ==
  CASE in.intent = "AFFIRM" ->
         Go(s, in, "LOCATION_COLLECTION", LocationPromptUtter)
    [] in.intent # "AFFIRM" /\ (in.amount # 0 \/ in.term # 0) ->
         LET o == Amend(s.offer, in.amount, in.term)
         IN  Stay([s EXCEPT !.offer = o], in,
                  After(AmendReply(s.offer, in.amount, in.term), "",
                        AmountCheckUtter(o)))
    [] in.intent = "DENY" -> Stay(s, in, Say("HELP"))
    [] OTHER -> InPlace(s, in, AmountCheckUtter(s.offer))

(***************************************************************************)
(* 7. City and district, two further phone numbers                          *)
(***************************************************************************)
OnLocationCollection(s, in) ==
  LET h == [s EXCEPT !.city = Hold(s.city, in.city),
                     !.district = Hold(s.district, in.district)]
  IN  CASE in.intent = "DENY" -> EndCall(s, in, "declined", DeclinedUtter)
        [] h.city # "" /\ h.district # "" ->
             Go(h, in, "PHONE_COLLECTION", PhonePromptUtter)
        [] OTHER -> InPlace(h, in, LocationPromptUtter)

\* mutant of Needed: two numbers are enough, valid or not
NeededAny(held, said) ==
  LET all == held \o said
  IN  SubSeq(all, 1, IF Len(all) < 2 THEN Len(all) ELSE 2)

\* the numbers held after this turn: the valid ones, at most two
Needed(held, said) ==
  LET all == held \o SelectSeq(said, Validate)
  IN  SubSeq(all, 1, IF Len(all) < 2 THEN Len(all) ELSE 2)

OnPhoneCollection(s, in) ==
  LET kept == Needed(s.phones, in.phones)
      h == [s EXCEPT !.phones = kept]
  IN  CASE Len(kept) = 2 -> Go(h, in, "PHONE_CONFIRM", PhoneConfirmUtter(kept))
        [] Len(kept) < 2 /\ SelectSeq(in.phones, Validate) # in.phones ->
             Stay(h, in, PhoneFormatUtter)
        [] Len(kept) = 1 /\ in.phones # <<>> -> Stay(h, in, PhoneSecondUtter)
        [] OTHER -> InPlace(h, in, IF Len(kept) = 1 THEN PhoneSecondUtter
                                                   ELSE PhonePromptUtter)

\* the numbers kept when the customer says number k is wrong (0: both)
Keep(ps, k) ==
  CASE k = 1 -> SubSeq(ps, 2, 2)
    [] k = 2 -> SubSeq(ps, 1, 1)
    [] OTHER -> <<>>

\* mutant of OnPhoneConfirm: a number named as wrong is dropped and the
\* script moves on with what is left
OnPhoneConfirmLax(s, in) ==
  CASE in.intent = "AFFIRM" ->
         Go([s EXCEPT !.phonesOk = TRUE], in, "FINAL_CONFIRM",
            FinalConfirmUtter(s.offer))
    [] in.intent = "CORRECTION" ->
         LET kept == Keep(s.phones, in.slot)
         IN  Go([s EXCEPT !.phones = kept, !.phonesOk = TRUE], in,
                "FINAL_CONFIRM", FinalConfirmUtter(s.offer))
    [] OTHER -> InPlace(s, in, PhoneConfirmUtter(s.phones))

OnPhoneConfirm(s, in) ==
  CASE in.intent = "AFFIRM" ->
         Go([s EXCEPT !.phonesOk = TRUE], in, "FINAL_CONFIRM",
            FinalConfirmUtter(s.offer))
    [] in.intent = "CORRECTION" ->
         LET kept == Keep(s.phones, in.slot)
         IN  Go([s EXCEPT !.phones = kept], in, "PHONE_COLLECTION",
                IF Len(kept) = 1 THEN PhoneSecondUtter ELSE PhonePromptUtter)
    [] OTHER -> InPlace(s, in, PhoneConfirmUtter(s.phones))

(***************************************************************************)
(* 8-9. Final confirmation, SMS dispatch, change of amount after the SMS    *)
(***************************************************************************)
\* mutant of Dispatch: the SMS goes out but the session does not note it
DispatchUnnoted(s) ==
  [s EXCEPT !.smsLog = Append(@, [amount |-> s.offer.amount,
                                  term |-> s.offer.term,
                                  phones |-> s.phones]),
            !.confirmation = "confirmed"]

\* the SMS goes out for the offer as it stands, to the two numbers held
Dispatch(s) ==
  [s EXCEPT !.smsLog = Append(@, [amount |-> s.offer.amount,
                                  term |-> s.offer.term,
                                  phones |-> s.phones]),
            !.dispatch = "sent", !.confirmation = "confirmed"]

\* mutant of OnFinalConfirm: whatever is not a NO counts as consent
OnFinalConfirmLax(s, in) ==
  CASE in.intent # "DENY" /\ Len(s.smsLog) < MaxSms ->
         Go(Dispatch([s EXCEPT !.offer = Amend(s.offer, in.amount, in.term)]),
            in, "DISPATCHED", SmsUtter)
    [] OTHER -> InPlace(s, in, FinalConfirmUtter(s.offer))

\* mutant of OnFinalConfirm: after "Beli" the same confirmation is asked again
OnFinalConfirmAgain(s, in) ==
  CASE in.intent = "AFFIRM" /\ Len(s.smsLog) < MaxSms ->
         Stay(Dispatch(s), in, FinalConfirmUtter(s.offer))
    [] in.intent = "AFFIRM" -> Go(s, in, "DISPATCHED", SmsUtter)
    [] in.intent # "AFFIRM" /\ (in.amount # 0 \/ in.term # 0) ->
         LET o == Amend(s.offer, in.amount, in.term)
         IN  Stay([s EXCEPT !.offer = o], in,
                  After(AmendReply(s.offer, in.amount, in.term), "",
                        FinalConfirmUtter(o)))
    [] OTHER -> InPlace(s, in, FinalConfirmUtter(s.offer))

OnFinalConfirm(s, in) ==
  CASE in.intent = "AFFIRM" /\ Len(s.smsLog) < MaxSms ->
         Go(Dispatch(s), in, "DISPATCHED", SmsUtter)
    [] in.intent # "AFFIRM" /\ (in.amount # 0 \/ in.term # 0) ->
         LET o == Amend(s.offer, in.amount, in.term)
         IN  Stay([s EXCEPT !.offer = o], in,
                  After(AmendReply(s.offer, in.amount, in.term), "",
                        FinalConfirmUtter(o)))
    [] OTHER -> InPlace(s, in, FinalConfirmUtter(s.offer))

\* the customer asks for another amount after the SMS
StartAmend(s, in) ==
  Go([s EXCEPT !.amendStep = "ask", !.newAmount = 0], in,
     "POST_DISPATCH_AMEND", AmendAskUtter(s.offer))

OnDispatched(s, in) ==
  CASE in.intent = "CORRECTION" -> StartAmend(s, in)
    [] in.intent = "QUESTION" -> Stay(s, in, Reply(in.q))
    [] in.intent = "OTHER" -> Stay(s, in, Say("ESCALATE"))
    [] OTHER -> Go(s, in, "CLOSING", ClosingQuestionUtter)

\* mutant of OnPostDispatchAmend: the first YES already replaces the amount
OnPostDispatchAmendEarly(s, in) ==
  CASE s.amendStep = "ask" /\ in.amount # 0 /\ AmountInRange(in.amount) ->
         Stay([s EXCEPT !.newAmount = in.amount, !.amendStep = "reconfirm"], in,
              AmendReconfirmUtter(in.amount))
    [] s.amendStep = "reconfirm" /\ in.intent = "AFFIRM" ->
         Stay([s EXCEPT !.amendStep = "final", !.offer.amount = s.newAmount],
              in, AmendFinalUtter)
    [] s.amendStep = "final" /\ in.intent = "AFFIRM" ->
         Go([s EXCEPT !.newAmount = 0, !.amendStep = ""],
            in, "CLOSING", ClosingQuestionUtter)
    [] OTHER -> InPlace(s, in, s.utter)

OnPostDispatchAmend(s, in) ==
  CASE s.amendStep = "ask" /\ in.amount # 0 ->
         IF AmountInRange(in.amount)
         THEN Stay([s EXCEPT !.newAmount = in.amount, !.amendStep = "reconfirm"],
                   in, AmendReconfirmUtter(in.amount))
         ELSE Stay(s, in, After("RANGE_ONLY", "", AmendAskUtter(s.offer)))
    [] s.amendStep = "ask" /\ in.amount = 0 ->
         InPlace(s, in, AmendAskUtter(s.offer))
    [] s.amendStep = "reconfirm" /\ in.intent = "AFFIRM" ->
         Stay([s EXCEPT !.amendStep = "final"], in, AmendFinalUtter)
    [] s.amendStep = "reconfirm" /\ in.intent = "DENY" ->
         Stay([s EXCEPT !.amendStep = "ask", !.newAmount = 0], in,
              AmendAskUtter(s.offer))
    [] s.amendStep = "reconfirm" /\ in.intent \notin {"AFFIRM", "DENY"} ->
         InPlace(s, in, AmendReconfirmUtter(s.newAmount))
    [] s.amendStep = "final" /\ in.intent = "AFFIRM" ->
         Go([s EXCEPT !.offer.amount = s.newAmount, !.newAmount = 0,
                      !.amendStep = ""],
            in, "CLOSING", ClosingQuestionUtter)
    [] OTHER -> InPlace(s, in, AmendFinalUtter)

(***************************************************************************)
(* 10. Closing                                                              *)
(***************************************************************************)
OnClosing(s, in) ==
  CASE in.intent = "DENY" -> EndCall(s, in, "completed", FinalClosingUtter)
    [] in.intent = "CORRECTION" -> StartAmend(s, in)
    [] OTHER -> InPlace(s, in, ClosingQuestionUtter)

\* mutant of OnCallEnded: a late "Beli" sends the SMS once more
OnCallEndedResend(s, in) ==
  IF in.intent = "AFFIRM" /\ Len(s.smsLog) < MaxSms THEN Dispatch(s) ELSE s

\* the call is over; nothing more is heard
OnCallEnded(s, in) == s

\* one turn of the call: the step the script is at handles what was said
Turn(s, in) ==
  CASE s.state = "GREETING" -> OnGreeting(s, in)
    [] s.state = "IDENTITY_CHALLENGE" -> OnIdentityChallenge(s, in)
    [] s.state = "IDENTITY_VERIFIED" -> OnIdentityVerified(s, in)
    [] s.state \in {"OFFER_PRESENTED", "QA_LOOP"} -> OnQuestions(s, in)
    [] s.state = "SECTOR_COLLECTION" -> OnSectorCollection(s, in)
    [] s.state = "SECTOR_CONFIRM" -> OnSectorConfirm(s, in)
    [] s.state = "AMOUNT_ACCEPT_CHECK" -> OnAmountAcceptCheck(s, in)
    [] s.state = "LOCATION_COLLECTION" -> OnLocationCollection(s, in)
    [] s.state = "PHONE_COLLECTION" -> OnPhoneCollection(s, in)
    [] s.state = "PHONE_CONFIRM" -> OnPhoneConfirm(s, in)
    [] s.state = "FINAL_CONFIRM" -> OnFinalConfirm(s, in)
    [] s.state = "DISPATCHED" -> OnDispatched(s, in)
    [] s.state = "POST_DISPATCH_AMEND" -> OnPostDispatchAmend(s, in)
    [] s.state = "CLOSING" -> OnClosing(s, in)
    [] OTHER -> OnCallEnded(s, in)

(***************************************************************************)
(* The call under study                                                     *)
(***************************************************************************)
\* no term has been tried against the rate table
NoProbe == [arg |-> 0, res |-> InvalidTerm, done |-> FALSE]

Init ==
  /\ sess = NewSession(ExpectedFather, ExpectedBirth)
  /\ sess2 = NewSession(OtherFather, OtherBirth)
  /\ probe = NoProbe

Greeting ==
  /\ sess.state = "GREETING"
  /\ \E in \in AllIn : sess' = OnGreeting(sess, in)
  /\ UNCHANGED <<sess2, probe>>

IdentityChallenge ==
  /\ sess.state = "IDENTITY_CHALLENGE"
  /\ \E in \in AllIn : sess' = OnIdentityChallenge(sess, in)
  /\ UNCHANGED <<sess2, probe>>

IdentityVerified ==
  /\ sess.state = "IDENTITY_VERIFIED"
  /\ \E in \in AllIn : sess' = OnIdentityVerified(sess, in)
  /\ UNCHANGED <<sess2, probe>>

OfferPresented ==
  /\ sess.state = "OFFER_PRESENTED"
  /\ \E in \in AllIn : sess' = OnQuestions(sess, in)
  /\ UNCHANGED <<sess2, probe>>

QaLoop ==
  /\ sess.state = "QA_LOOP"
  /\ \E in \in AllIn : sess' = OnQuestions(sess, in)
  /\ UNCHANGED <<sess2, probe>>

SectorCollection ==
  /\ sess.state = "SECTOR_COLLECTION"
  /\ \E in \in AllIn : sess' = OnSectorCollection(sess, in)
  /\ UNCHANGED <<sess2, probe>>

SectorConfirm ==
  /\ sess.state = "SECTOR_CONFIRM"
  /\ \E in \in AllIn : sess' = OnSectorConfirm(sess, in)
  /\ UNCHANGED <<sess2, probe>>

AmountAcceptCheck ==
  /\ sess.state = "AMOUNT_ACCEPT_CHECK"
  /\ \E in \in AllIn : sess' = OnAmountAcceptCheck(sess, in)
  /\ UNCHANGED <<sess2, probe>>

LocationCollection ==
  /\ sess.state = "LOCATION_COLLECTION"
  /\ \E in \in AllIn : sess' = OnLocationCollection(sess, in)
  /\ UNCHANGED <<sess2, probe>>

PhoneCollection ==
  /\ sess.state = "PHONE_COLLECTION"
  /\ \E in \in AllIn : sess' = OnPhoneCollection(sess, in)
  /\ UNCHANGED <<sess2, probe>>

PhoneConfirm ==
  /\ sess.state = "PHONE_CONFIRM"
  /\ \E in \in AllIn : sess' = OnPhoneConfirm(sess, in)
  /\ UNCHANGED <<sess2, probe>>

FinalConfirm ==
  /\ sess.state = "FINAL_CONFIRM"
  /\ \E in \in AllIn : sess' = OnFinalConfirm(sess, in)
  /\ UNCHANGED <<sess2, probe>>

Dispatched ==
  /\ sess.state = "DISPATCHED"
  /\ \E in \in AllIn : sess' = OnDispatched(sess, in)
  /\ UNCHANGED <<sess2, probe>>

PostDispatchAmend ==
  /\ sess.state = "POST_DISPATCH_AMEND"
  /\ \E in \in AllIn : sess' = OnPostDispatchAmend(sess, in)
  /\ UNCHANGED <<sess2, probe>>

Closing ==
  /\ sess.state = "CLOSING"
  /\ \E in \in AllIn : sess' = OnClosing(sess, in)
  /\ UNCHANGED <<sess2, probe>>

\* whatever arrives after the end of the call
CallEnded ==
  /\ sess.state = "CALL_ENDED"
  /\ \E in \in AllIn : sess' = OnCallEnded(sess, in)
  /\ UNCHANGED <<sess2, probe>>

Next ==
  \/ Greeting
  \/ IdentityChallenge
  \/ IdentityVerified
  \/ OfferPresented
  \/ QaLoop
  \/ SectorCollection
  \/ SectorConfirm
  \/ AmountAcceptCheck
  \/ LocationCollection
  \/ PhoneCollection
  \/ PhoneConfirm
  \/ FinalConfirm
  \/ Dispatched
  \/ PostDispatchAmend
  \/ Closing
  \/ CallEnded

Spec == Init /\ [][Next]_vars

(***************************************************************************)
(* Two calls that hear the same customer and differ in the secret values    *)
(***************************************************************************)
PairTurn ==
  \E in \in AllIn :
    /\ sess' = Turn(sess, in)
    /\ sess2' = Turn(sess2, in)
    /\ UNCHANGED probe

NextPair == PairTurn

SpecPair == Init /\ [][NextPair]_vars

(***************************************************************************)
(* Two calls served at the same time by the one script                      *)
(***************************************************************************)
\* what the customers say in the calls served together
ConcIn ==
  { [NoIn EXCEPT !.intent = "AFFIRM"],
    [NoIn EXCEPT !.intent = "DENY"],
    [NoIn EXCEPT !.intent = "CORRECTION"],
    [NoIn EXCEPT !.intent = "DATA", !.father = "Anar", !.birth = "12 iyul 2001"],
    [NoIn EXCEPT !.intent = "DATA", !.father = "Anar", !.birth = "3 may 1999"],
    [NoIn EXCEPT !.intent = "DATA", !.sector = "ticaret", !.subsector = "perakende"],
    [NoIn EXCEPT !.intent = "CORRECTION", !.amount = 20000, !.term = 12],
    [NoIn EXCEPT !.intent = "DATA", !.city = "Baki", !.district = "Nesimi"],
    [NoIn EXCEPT !.intent = "DATA",
                 !.phones = << <<0,5,0,1,2,3,4,5,6,7>>, <<0,7,7,7,6,5,4,3,2,1>> >>] }

\* mutant of Route: the offer is kept in one place for all calls
RouteSharedOffer(own, other, in) == Turn([own EXCEPT !.offer = other.offer], in)

\* a turn is handled with the record of the call it belongs to
Route(own, other, in) == Turn(own, in)

InitConc ==
  /\ sess = NewSession(ExpectedFather, ExpectedBirth)
  /\ sess2 = NewSession(ExpectedFather, ExpectedBirth)
  /\ probe = NoProbe

ServeFirst ==
  /\ \E in \in ConcIn : sess' = Route(sess, sess2, in)
  /\ UNCHANGED <<sess2, probe>>

ServeSecond ==
  /\ \E in \in ConcIn : sess2' = Route(sess2, sess, in)
  /\ UNCHANGED <<sess, probe>>

NextConc ==
  \/ ServeFirst
  \/ ServeSecond

SpecConc == InitConc /\ [][NextConc]_vars

(***************************************************************************)
(* The rate table applied to one term                                       *)
(***************************************************************************)
InitRate ==
  /\ sess = NewSession(ExpectedFather, ExpectedBirth)
  /\ sess2 = NewSession(OtherFather, OtherBirth)
  /\ probe \in { [NoProbe EXCEPT !.arg = t] : t \in 0..MaxTermProbe }

LookUpRate ==
  /\ ~probe.done
  /\ probe' = [probe EXCEPT !.res = RateFor(probe.arg), !.done = TRUE]
  /\ UNCHANGED <<sess, sess2>>

NextRate == LookUpRate

SpecRate == InitRate /\ [][NextRate]_vars

(***************************************************************************)
(* The phone number rule applied to one number                              *)
(***************************************************************************)
\* what follows the first three symbols: seven digits, six, eight, seven
\* symbols with a separator among them, nothing
ProbeTails ==
  { <<1,2,3,4,5,6,7>>, <<1,2,3,4,5,6>>, <<1,2,3,4,5,6,7,8>>,
    <<1,2,3,-1,5,6,7>>, <<>> }

PhoneProbes ==
  { <<a, b, c>> \o t :
      a \in -1..MaxPrefixSymbol, b \in -1..MaxPrefixSymbol,
      c \in -1..MaxPrefixSymbol, t \in ProbeTails }

InitPhone ==
  /\ sess = NewSession(ExpectedFather, ExpectedBirth)
  /\ sess2 = NewSession(OtherFather, OtherBirth)
  /\ probe \in { [arg |-> p, res |-> FALSE, done |-> FALSE] : p \in PhoneProbes }

CheckNumber ==
  /\ ~probe.done
  /\ probe' = [probe EXCEPT !.res = Validate(probe.arg), !.done = TRUE]
  /\ UNCHANGED <<sess, sess2>>

NextPhone == CheckNumber

SpecPhone == InitPhone /\ [][NextPhone]_vars

(***************************************************************************)
(* Properties                                                               *)
(***************************************************************************)
\* the offer version of an SMS log entry or of an offer
Version(e) == <<e.amount, e.term>>

\* C1: an SMS is sent only in answer to an AFFIRM given at FINAL_CONFIRM
\* while the confirmation on the line states the amount, term and rate of
\* the offer as it is at that moment, and the SMS is for that offer
C1_DispatchOnlyOnFreshAffirm ==
  [][ Len(sess'.smsLog) > Len(sess.smsLog) =>
        /\ sess.state = "FINAL_CONFIRM"
        /\ sess'.lastIntent = "AFFIRM"
        /\ sess.utter.id = "FINAL_CONFIRM"
        /\ <<sess.utter.amount, sess.utter.term>> = Version(sess.offer)
        /\ sess'.offer = sess.offer
        /\ Len(sess'.smsLog) = Len(sess.smsLog) + 1
        /\ Version(sess'.smsLog[Len(sess'.smsLog)]) = Version(sess.offer) ]_vars

\* C1 witness: the SMS went out for an offer that was amended on the way
C1_Witness ==
  /\ sess.state = "DISPATCHED"
  /\ sess.lastIntent = "AFFIRM"
  /\ Len(sess.smsLog) = 1
  /\ Version(sess.smsLog[1]) = <<20000, 12>>

\* C2: no offer version appears twice in the SMS log
C2_AtMostOncePerVersion ==
  \A i, j \in 1..Len(sess.smsLog) :
    i # j => Version(sess.smsLog[i]) # Version(sess.smsLog[j])

\* C2 witness: a second "Beli" right after the one that sent the SMS
C2_Witness ==
  /\ sess.state = "CLOSING"
  /\ sess.lastIntent = "AFFIRM"
  /\ sess.utter = ClosingQuestionUtter
  /\ Len(sess.smsLog) = 1
  /\ Version(sess.smsLog[1]) = Version(sess.offer)

\* C3: once both identity facts are held and they are not both the expected
\* ones, the call is ended as identity-rejected, and a call is past the
\* identity step only with both facts equal to the expected ones
C3_MismatchEndsCall ==
  /\ (sess.father # "" /\ sess.birth # ""
        /\ (sess.father # sess.expFather \/ sess.birth # sess.expBirth))
     => /\ sess.state = "CALL_ENDED"
        /\ sess.reason = "identity-rejected"
        /\ sess.verification = "rejected"
        /\ sess.endCall
  /\ sess.state \notin {"GREETING", "IDENTITY_CHALLENGE", "CALL_ENDED"}
     => sess.father = sess.expFather /\ sess.birth = sess.expBirth

\* C3 witness: the father's name was right and the birth date wrong
C3_Witness ==
  /\ sess.reason = "identity-rejected"
  /\ sess.father = sess.expFather
  /\ sess.birth # sess.expBirth

\* the slots of an utterance that carry text
TextSlots(u) == {u.x, u.y, u.q}

\* C4: two calls that hear the same customer say the same thing as long as
\* neither has verified the customer, and nothing either call says carries
\* its expected father's name or birth date
C4_RejectionIndependentOfSecret ==
  /\ (sess.verification # "verified" /\ sess2.verification # "verified")
     => /\ sess.utter = sess2.utter
        /\ sess.endCall = sess2.endCall
        /\ sess.state = sess2.state
  /\ TextSlots(sess.utter) \cap {sess.expFather, sess.expBirth} = {}
  /\ TextSlots(sess2.utter) \cap {sess2.expFather, sess2.expBirth} = {}

\* C4 witness: both calls rejected the same answers, which had the first
\* call's father's name right
C4_Witness ==
  /\ sess.reason = "identity-rejected"
  /\ sess2.reason = "identity-rejected"
  /\ sess.father = sess.expFather
  /\ sess2.birth = sess2.expBirth

\* C5: a NO at the greeting ends the call with the wrong-number message,
\* and the security step is entered only from the greeting on a YES
C5_GreetingDenyEndsCall ==
  [][ /\ (sess.state = "GREETING" /\ sess'.lastIntent = "DENY")
         => /\ sess'.state = "CALL_ENDED"
            /\ sess'.reason = "wrong-number"
            /\ sess'.utter = WrongNumberUtter
            /\ sess'.endCall
      /\ (sess.state # "IDENTITY_CHALLENGE" /\ sess'.state = "IDENTITY_CHALLENGE")
         => /\ sess.state = "GREETING"
            /\ sess'.lastIntent = "AFFIRM"
      /\ sess'.utter.id \in {"IDENTITY_PROMPT", "ASK_FATHER", "ASK_BIRTH"}
         => sess'.state = "IDENTITY_CHALLENGE" ]_vars

\* C5 witness: the call was ended as a wrong number
C5_Witness ==
  /\ sess.state = "CALL_ENDED"
  /\ sess.reason = "wrong-number"
  /\ sess.lastIntent = "DENY"

\* C6: the final confirmation on the line states the amount and term of the
\* offer as it stands and the rate of that term
C6_RateFollowsTerm ==
  sess.utter.id = "FINAL_CONFIRM"
    => /\ sess.state = "FINAL_CONFIRM"
       /\ <<sess.utter.amount, sess.utter.term>> = Version(sess.offer)
       /\ RateFor(sess.offer.term).err = ""
       /\ sess.utter.rate = RateFor(sess.offer.term).rate

\* C6 witness: 50000 over 36 months became 20000 over 12 months and the
\* final confirmation states 21%
C6_Witness ==
  /\ sess.state = "FINAL_CONFIRM"
  /\ sess.offer = [amount |-> 20000, term |-> 12]
  /\ sess.utter.rate = 21

DeclineSteps ==
  {"IDENTITY_VERIFIED", "OFFER_PRESENTED", "QA_LOOP", "SECTOR_COLLECTION",
   "LOCATION_COLLECTION"}
\* the steps at which the script handles a refusal itself
InPlaceSteps ==
  {"IDENTITY_CHALLENGE", "SECTOR_CONFIRM", "AMOUNT_ACCEPT_CHECK",
   "PHONE_COLLECTION", "PHONE_CONFIRM", "FINAL_CONFIRM", "POST_DISPATCH_AMEND"}

C8_PhoneConfirmNeedsTwoValid ==
  [][ /\ sess'.state = "PHONE_CONFIRM"
         => /\ Len(sess'.phones) = 2
            /\ \A i \in 1..2 : Validate(sess'.phones[i])
            /\ sess'.utter.phones = sess'.phones
      /\ (sess.state = "PHONE_COLLECTION" /\ Len(sess'.phones) < 2)
         => sess'.state = "PHONE_COLLECTION"
      /\ (sess.state = "PHONE_CONFIRM" /\ sess'.lastIntent = "CORRECTION")
         => /\ sess'.state = "PHONE_COLLECTION"
            /\ Len(sess'.phones) < 2 ]_vars

\* C8 witness: one valid number is held, the other one said was refused
C8_Witness ==
  /\ sess.state = "PHONE_COLLECTION"
  /\ Len(sess.phones) = 1
  /\ sess.utter = PhoneFormatUtter

\* C9: after the SMS the amount of the offer changes only on the AFFIRM to
\* the last confirmation of the amendment, to the amount that was collected
\* and re-confirmed, and no step of the amendment adds to the SMS log
C9_AmendNeedsSecondAffirm ==
  [][ sess.dispatch = "sent" =>
        /\ sess'.offer.amount # sess.offer.amount
           => /\ sess.state = "POST_DISPATCH_AMEND"
              /\ sess.amendStep = "final"
              /\ sess.utter.id = "AMEND_FINAL"
              /\ sess'.lastIntent = "AFFIRM"
              /\ sess'.offer.amount = sess.newAmount
        /\ (sess.state = "POST_DISPATCH_AMEND" \/ sess'.state = "POST_DISPATCH_AMEND")
           => sess'.smsLog = sess.smsLog ]_vars

\* C9 witness: the amendment went through after the SMS
C9_Witness ==
  /\ sess.state = "CLOSING"
  /\ Len(sess.smsLog) = 1
  /\ sess.smsLog[1].amount = 50000
  /\ sess.offer.amount = 20000

\* C10: the four listed terms give 19, 21, 23 and 25 percent, and every
\* other term gives InvalidTerm and no rate
C10_RateTable ==
  probe.done =>
    /\ probe.arg = 6 => probe.res = [err |-> "", rate |-> 19]
    /\ probe.arg = 12 => probe.res = [err |-> "", rate |-> 21]
    /\ probe.arg = 24 => probe.res = [err |-> "", rate |-> 23]
    /\ probe.arg = 36 => probe.res = [err |-> "", rate |-> 25]
    /\ probe.arg \notin {6, 12, 24, 36}
       => probe.res = [err |-> "InvalidTerm", rate |-> 0]

\* C10 witness: 18 months was looked up and refused
C10_Witness ==
  /\ probe.done
  /\ probe.arg = 18
  /\ probe.res.err = "InvalidTerm"

\* C11: a number is Valid exactly when it has ten symbols, all of them
\* digits, and starts with 050, 055, 010, 070, 077 or 099
C11_ValidateIff ==
  probe.done =>
    ( probe.res
      <=> /\ Len(probe.arg) = 10
          /\ \A i \in 1..10 : probe.arg[i] \in {0, 1, 2, 3, 4, 5, 6, 7, 8, 9}
          /\ \/ <<probe.arg[1], probe.arg[2], probe.arg[3]>> = <<0, 5, 0>>
             \/ <<probe.arg[1], probe.arg[2], probe.arg[3]>> = <<0, 5, 5>>
             \/ <<probe.arg[1], probe.arg[2], probe.arg[3]>> = <<0, 1, 0>>
             \/ <<probe.arg[1], probe.arg[2], probe.arg[3]>> = <<0, 7, 0>>
             \/ <<probe.arg[1], probe.arg[2], probe.arg[3]>> = <<0, 7, 7>>
             \/ <<probe.arg[1], probe.arg[2], probe.arg[3]>> = <<0, 9, 9>> )

\* C11 witness: 0601234567 has ten digits and was found Invalid
C11_Witness ==
  /\ probe.done
  /\ probe.arg = <<0, 6, 0, 1, 2, 3, 4, 5, 6, 7>>
  /\ ~probe.res

\* C12: the amount step is entered only from the sector confirmation, on
\* an AFFIRM to a confirmation that states the sector and sub-sector held;
\* a correction never enters it: either the values are asked for again or
\* the named values are taken and the confirmation is said again with them
C12_SectorAffirmOnStoredValues ==
  [][ /\ (sess.state # "AMOUNT_ACCEPT_CHECK" /\ sess'.state = "AMOUNT_ACCEPT_CHECK")
         => /\ sess.state = "SECTOR_CONFIRM"
            /\ sess'.lastIntent = "AFFIRM"
            /\ sess.utter.id = "SECTOR_CONFIRM"
            /\ sess.utter.x = sess'.sector
            /\ sess.utter.y = sess'.subsector
            /\ sess'.sectorOk
      /\ (sess.state = "SECTOR_CONFIRM" /\ sess'.lastIntent # "AFFIRM")
         => sess'.state \in {"SECTOR_CONFIRM", "SECTOR_COLLECTION"}
      /\ (sess.state = "SECTOR_CONFIRM" /\ sess'.lastIntent = "CORRECTION")
         => \/ /\ sess'.state = "SECTOR_COLLECTION"
               /\ sess'.utter = SectorPromptUtter
            \/ /\ sess'.state = "SECTOR_CONFIRM"
               /\ sess'.utter = SectorConfirmUtter(sess'.sector, sess'.subsector)
      /\ sess'.state = "SECTOR_CONFIRM"
         => /\ sess'.utter.id = "SECTOR_CONFIRM"
            /\ sess'.utter.x = sess'.sector /\ sess'.sector # ""
            /\ sess'.utter.y = sess'.subsector /\ sess'.subsector # ""
            /\ ~sess'.sectorOk ]_vars

\* C12 witness: after a correction the confirmation states the other sector
C12_Witness ==
  /\ sess.state = "SECTOR_CONFIRM"
  /\ sess.lastIntent = "CORRECTION"
  /\ sess.utter = SectorConfirmUtter("xidmet", "perakende")
  /\ sess.sector = "xidmet"

\* what a call has come to: step, end, flag, facts held, what was said
Verdict(s) ==
  <<s.state, s.reason, s.verification, s.father, s.birth, s.utter, s.endCall>>

FatherSaid(f) == [NoIn EXCEPT !.intent = "DATA", !.father = f]
BirthSaid(b) == [NoIn EXCEPT !.intent = "DATA", !.birth = b]
BothSaid(f, b) == [NoIn EXCEPT !.intent = "DATA", !.father = f, !.birth = b]

\* C13: at the security step with nothing held yet, the father's name then
\* the birth date, the birth date then the father's name, both at once, and
\* the father's name said twice then the birth date all come to the same
\* verdict; with one fact missing the call stays at the step, unverified,
\* and asks for the missing fact only; the step is left only with both held
C13_IdentityOrderIndependent ==
  [][ /\ (sess.state = "IDENTITY_CHALLENGE" /\ sess.father = "" /\ sess.birth = "")
         => \A f \in FatherInputs, b \in BirthInputs :
              LET f1 == OnIdentityChallenge(sess, FatherSaid(f))
                  b1 == OnIdentityChallenge(sess, BirthSaid(b))
                  fb == OnIdentityChallenge(f1, BirthSaid(b))
                  bf == OnIdentityChallenge(b1, FatherSaid(f))
                  ffb == OnIdentityChallenge(
                           OnIdentityChallenge(f1, FatherSaid(f)), BirthSaid(b))
                  both == OnIdentityChallenge(sess, BothSaid(f, b))
              IN  /\ f1.state = "IDENTITY_CHALLENGE"
                  /\ b1.state = "IDENTITY_CHALLENGE"
                  /\ Verdict(fb) = Verdict(bf)
                  /\ Verdict(fb) = Verdict(both)
                  /\ Verdict(fb) = Verdict(ffb)
                  /\ (fb.verification = "verified")
                       <=> (f = sess.expFather /\ b = sess.expBirth)
      /\ (sess.state = "IDENTITY_CHALLENGE"
            /\ (sess'.father = "" \/ sess'.birth = ""))
         => /\ sess'.state = "IDENTITY_CHALLENGE"
            /\ sess'.verification = "unverified"
            /\ sess'.utter.id =
                 CASE sess'.father = "" /\ sess'.birth # "" -> "ASK_FATHER"
                   [] sess'.father # "" /\ sess'.birth = "" -> "ASK_BIRTH"
                   [] OTHER -> "IDENTITY_PROMPT"
      /\ (sess.state = "IDENTITY_CHALLENGE" /\ sess'.state # "IDENTITY_CHALLENGE")
         => sess'.father # "" /\ sess'.birth # "" ]_vars

\* C13 witness: the birth date came first and only the father's name is
\* asked for
C13_Witness ==
  /\ sess.state = "IDENTITY_CHALLENGE"
  /\ sess.father = ""
  /\ sess.birth = sess.expBirth
  /\ sess.utter = AskFatherUtter

\* C14: in two calls served together every step is a turn of one call,
\* leaves the other call's record as it was, and takes the call to where
\* the same words would take it if it were the only call
C14_SessionsIndependent ==
  [][ /\ sess' # sess
         => /\ sess2' = sess2
            /\ \E in \in ConcIn : sess' = Turn(sess, in)
      /\ sess2' # sess2
         => /\ sess' = sess
            /\ \E in \in ConcIn : sess2' = Turn(sess2, in) ]_vars

\* C14 witness: both calls sent their SMS, one for the amended offer and
\* one for the pre-approved offer
C14_Witness ==
  /\ sess.dispatch = "sent"
  /\ sess2.dispatch = "sent"
  /\ sess.offer = [amount |-> 20000, term |-> 12]
  /\ sess2.offer = [amount |-> PreApprovedAmount, term |-> MaxTermAvailable]
  /\ sess.smsLog # sess2.smsLog

\* C15: the turn that hears AFFIRM at the final confirmation ends at
\* DISPATCHED with the SMS line said, one new SMS log entry for the offer
\* confirmed, and the flags confirmed and sent; a confirmed session has sent
\* exactly one SMS, for the version confirmed
C15_AffirmDispatchesOnce ==
  [][ /\ (sess.state = "FINAL_CONFIRM" /\ sess'.lastIntent = "AFFIRM")
         => /\ sess'.state = "DISPATCHED"
            /\ sess'.utter = SmsUtter
            /\ sess'.smsLog =
                 Append(sess.smsLog, [amount |-> sess.offer.amount,
                                      term |-> sess.offer.term,
                                      phones |-> sess.phones])
            /\ sess'.dispatch = "sent"
            /\ sess'.confirmation = "confirmed"
      /\ (sess'.confirmation = "confirmed" \/ sess'.state = "DISPATCHED")
         => /\ sess'.dispatch = "sent"
            /\ Len(sess'.smsLog) = 1 ]_vars

\* C15 witness: the pre-approved offer was confirmed and its SMS sent
C15_Witness ==
  /\ sess.state = "DISPATCHED"
  /\ sess.utter = SmsUtter
  /\ sess.dispatch = "sent"
  /\ sess.smsLog = << [amount |-> PreApprovedAmount, term |-> MaxTermAvailable,
                       phones |-> sess.phones] >>

\* C16: the amount step is left only for the location step and only on an
\* AFFIRM, which leaves the offer as it is; the offer changes there only to
\* an amount of 1000 to 50000 and a term of 6, 12, 24 or 36; a request that
\* is refused leaves the offer and the step unchanged; the offer of every
\* state is within those limits
C16_AmountStepAndLimits ==
  [][ /\ (sess.state = "AMOUNT_ACCEPT_CHECK" /\ sess'.state # "AMOUNT_ACCEPT_CHECK")
         => /\ sess'.state = "LOCATION_COLLECTION"
            /\ sess'.lastIntent = "AFFIRM"
            /\ sess'.offer = sess.offer
      /\ (sess.state = "AMOUNT_ACCEPT_CHECK" /\ sess'.lastIntent # "AFFIRM")
         => sess'.state = "AMOUNT_ACCEPT_CHECK"
      /\ (sess.state = "AMOUNT_ACCEPT_CHECK" /\ sess'.offer # sess.offer)
         => sess'.utter.pre = "CHANGED"
      /\ (sess.state = "AMOUNT_ACCEPT_CHECK"
            /\ sess'.utter.pre \in {"TERMS_ONLY", "RANGE_ONLY"})
         => /\ sess'.offer = sess.offer
            /\ sess'.state = "AMOUNT_ACCEPT_CHECK"
      /\ sess'.offer.amount >= 1000
      /\ sess'.offer.amount <= 50000
      /\ sess'.offer.term \in {6, 12, 24, 36} ]_vars

\* C16 witness: a request at the amount step was refused for its term and
\* the pre-approved offer stands
C16_Witness ==
  /\ sess.state = "AMOUNT_ACCEPT_CHECK"
  /\ sess.utter.pre = "TERMS_ONLY"
  /\ sess.lastIntent = "CORRECTION"
  /\ sess.offer = [amount |-> PreApprovedAmount, term |-> MaxTermAvailable]

\* the system transfers the matter to a specialist, alone or before the
\* prompt of the step
Escalates(u) == u.id = "ESCALATE" \/ u.pre = "ESCALATE"

\* C17: in the question loop, at the final confirmation and at the closing
\* question, a question outside the twelve categories of the script is
\* answered with the transfer to a specialist; the call goes on in the same
\* step and the verification, the confirmation, the SMS record and the
\* offer stay as they were
C17_UnknownQuestionEscalates ==
  [][ (/\ sess.state \in {"QA_LOOP", "FINAL_CONFIRM", "CLOSING"}
       /\ sess'.lastIntent = "QUESTION"
       /\ sess'.lastQ \notin KnownQuestions)
      => /\ Escalates(sess'.utter)
         /\ sess'.state = sess.state
         /\ ~sess'.endCall
         /\ sess'.verification = sess.verification
         /\ sess'.confirmation = sess.confirmation
         /\ sess'.dispatch = sess.dispatch
         /\ sess'.smsLog = sess.smsLog
         /\ sess'.offer = sess.offer ]_vars

\* C17 witness: in the question loop a question outside the script has just
\* been passed to a specialist and the call is still on
C17_Witness ==
  /\ sess.state = "QA_LOOP"
  /\ sess.lastIntent = "QUESTION"
  /\ sess.lastQ = "NOT_IN_SCRIPT"
  /\ sess.utter = Say("ESCALATE")
  /\ ~sess.endCall

\* the step st is entered in this turn from a step outside from
EnteredOnlyFrom(st, from) ==
  (sess'.state = st /\ sess.state # st) => sess.state \in from

\* C18: whenever the SMS is noted as sent the customer is verified, the
\* offer confirmed, sector and sub-sector held and agreed, city and district
\* held, and exactly two valid numbers held and agreed; and each step from
\* the sector confirmation to the SMS is entered only from the step before
\* it, so none of them is skipped on the way to the SMS
C18_DispatchNeedsAllSteps ==
  [][ /\ sess'.dispatch = "sent"
         => /\ sess'.verification = "verified"
            /\ sess'.confirmation = "confirmed"
            /\ sess'.sectorOk
            /\ sess'.sector # ""
            /\ sess'.subsector # ""
            /\ sess'.city # ""
            /\ sess'.district # ""
            /\ Len(sess'.phones) = 2
            /\ Validate(sess'.phones[1])
            /\ Validate(sess'.phones[2])
            /\ sess'.phonesOk
      /\ EnteredOnlyFrom("DISPATCHED", {"FINAL_CONFIRM"})
      /\ EnteredOnlyFrom("FINAL_CONFIRM", {"PHONE_CONFIRM"})
      /\ EnteredOnlyFrom("PHONE_CONFIRM", {"PHONE_COLLECTION"})
      /\ EnteredOnlyFrom("PHONE_COLLECTION", {"LOCATION_COLLECTION", "PHONE_CONFIRM"})
      /\ EnteredOnlyFrom("LOCATION_COLLECTION", {"AMOUNT_ACCEPT_CHECK"})
      /\ EnteredOnlyFrom("AMOUNT_ACCEPT_CHECK", {"SECTOR_CONFIRM"})
      /\ (sess.state = "SECTOR_CONFIRM" /\ sess'.state = "AMOUNT_ACCEPT_CHECK")
         => sess'.sectorOk /\ sess'.lastIntent = "AFFIRM"
      /\ (sess.state = "PHONE_CONFIRM" /\ sess'.state = "FINAL_CONFIRM")
         => sess'.phonesOk /\ sess'.lastIntent = "AFFIRM"
                            /\ sess'.phones = sess.phones ]_vars

\* C18 witness: a call completed after the SMS, with everything the SMS
\* rests on in the session
C18_Witness ==
  /\ sess.state = "CALL_ENDED"
  /\ sess.reason = "completed"
  /\ sess.dispatch = "sent"
  /\ sess.verification = "verified"
  /\ sess.sectorOk
  /\ sess.phonesOk
  /\ Len(sess.phones) = 2
  /\ sess.city # ""

\* the steps of the script from the offer on, the end of the call excepted
OfferSteps ==
  { "OFFER_PRESENTED", "QA_LOOP", "SECTOR_COLLECTION", "SECTOR_CONFIRM",
    "AMOUNT_ACCEPT_CHECK", "LOCATION_COLLECTION", "PHONE_COLLECTION",
    "PHONE_CONFIRM", "FINAL_CONFIRM", "DISPATCHED", "POST_DISPATCH_AMEND",
    "CLOSING" }

\* the system presents the offer, answers a question about it, or names an
\* amount or a term of the loan
NamesOffer(u) ==
  \/ u.id \in {"OFFER", "ANSWER"}
  \/ u.pre = "ANSWER"
  \/ u.amount # 0
  \/ u.term # 0

C20_CallEndedAbsorbing ==
  [][ sess.state = "CALL_ENDED"
      => /\ sess' = sess
         /\ sess'.state = "CALL_ENDED"
         /\ sess'.smsLog = sess.smsLog ]_vars

\* C20 witness: a call ended after the SMS and the closing, with the signal
\* to end the call given and one SMS on record
C20_Witness ==
  /\ sess.state = "CALL_ENDED"
  /\ sess.endCall
  /\ sess.reason = "completed"
  /\ sess.utter = FinalClosingUtter
  /\ Len(sess.smsLog) = 1

====
